---- MODULE Spec2Model ----
(***************************************************************************)
(* Model of the editing core of eminent (src/src/main.rs): BufferState,    *)
(* its command interpreter `process`, the offset/cursor conversions and    *)
(* the display-cursor query `get_cursor`, driven by the key dispatch of    *)
(* the event loop in `main`.                                               *)
(*                                                                         *)
(* The buffer is the rope's content as a sequence of UTF-8 bytes; the      *)
(* cursor is <<column, line>> with the column in bytes.  The rope queries  *)
(* used by the code (xi_rope) are operators over the byte sequence.        *)
(***************************************************************************)
EXTENDS Integers, Sequences, FiniteSets

\* Bound on the byte length of the buffer.
MaxLen == 6

\* '\n', the only line break the rope's LinesMetric counts.
NL == 10

\* Characters a key press can deliver to Insert: 'h' (one byte) and U+0301
\* (combining acute accent, two bytes in UTF-8, Grapheme_Extend).
Chars == {104, 769}

\* Option::None of the rope's boundary queries.
None == -1

\* terminal::size(): width and height of the terminal, frame included.  The
\* width is the least in which draw_frame can place its nine-character
\* title (`mid - len / 2` on u16) and print it within the top row.
ScreenWidth == 9

ScreenHeight == 5

\* Bound on the line breaks of the buffer where the terminal's content is
\* tracked.
ScreenMaxBreaks == 2

\* Characters typed where the terminal's content is tracked: a letter, which
\* takes one cell.
ScreenChars == {104}

\* A blank cell.
Blank == 32

VARIABLES buffer, cursor, display, panicked, cmd, prevBuffer, prevCursor, screen

vars == <<buffer, cursor, display, panicked, cmd, prevBuffer, prevCursor, screen>>

----------------------------------------------------------------------------
(* Small helpers *)

SetMax(S) == CHOOSE m \in S : \A k \in S : k <= m

SetMin(S) == CHOOSE m \in S : \A k \in S : m <= k

MinOf(a, b) == IF a <= b THEN a ELSE b

----------------------------------------------------------------------------
(* UTF-8 *)

\* char::len_utf8
len_utf8(ch) == IF ch < 128 THEN 1 ELSE IF ch < 2048 THEN 2 ELSE IF ch < 65536 THEN 3 ELSE 4

\* String::from(ch): the UTF-8 encoding of a code point below U+0800.
Utf8(ch) == IF ch < 128 THEN <<ch>> ELSE <<192 + (ch \div 64), 128 + (ch % 64)>>

\* A UTF-8 continuation byte (10xxxxxx).
IsCont(b) == b \div 64 = 2

\* str::is_char_boundary, as BaseMetric::is_boundary uses it.
is_codepoint_boundary(buf, o) ==
    \/ o = 0
    \/ o = Len(buf)
    \/ (o > 0 /\ o < Len(buf) /\ ~IsCont(buf[o + 1]))

\* The code point that starts at byte offset o (o a boundary, o < len).
DecodeAt(buf, o) ==
    IF buf[o + 1] < 128 THEN buf[o + 1]
    ELSE (buf[o + 1] - 192) * 64 + (buf[o + 2] - 128)

\* Grapheme_Cluster_Break = Extend, for the combining diacritical marks.
IsExtend(cp) == cp >= 768 /\ cp <= 879

\* Grapheme_Cluster_Break = Control / LF.
IsControl(cp) == cp < 32

\* UAX #29 boundaries over the model's characters: GB1/GB2 (text start and
\* end), GB4/GB5 (break around controls), GB9 (no break before Extend),
\* GB999 (break everywhere else).
is_grapheme_boundary(buf, o) ==
    \/ o = 0
    \/ o = Len(buf)
    \/ /\ o > 0 /\ o < Len(buf)
       /\ ~IsCont(buf[o + 1])
       /\ (IsExtend(DecodeAt(buf, o)) => IsControl(buf[o]))

----------------------------------------------------------------------------
(* Rope queries *)

\* count_newlines(&s[..n])
count_newlines(buf, n) == Cardinality({k \in 1..n : buf[k] = NL})

\* Rope::measure::<LinesMetric>(): the number of line breaks.
measure_lines(buf) == count_newlines(buf, Len(buf))

\* Rope::offset_of_line: panics beyond max_line, len() at max_line.
offset_of_line_panics(buf, line) == line > measure_lines(buf) + 1

offset_of_line(buf, line) ==
    IF line >= measure_lines(buf) + 1 THEN Len(buf)
    ELSE IF line = 0 THEN 0
    ELSE CHOOSE k \in 1..Len(buf) : buf[k] = NL /\ count_newlines(buf, k) = line

\* Rope::line_of_offset: the count of newlines in the slice up to offset;
\* panics past len() and when the slice ends inside a code point.
line_of_offset_panics(buf, o) == o > Len(buf) \/ ~is_codepoint_boundary(buf, o)

line_of_offset(buf, o) == count_newlines(buf, MinOf(o, Len(buf)))

\* buffer.lines(start..).next().map(|line| line.len()).unwrap_or(0)
first_line_len(buf, start) ==
    IF start >= Len(buf) THEN 0
    ELSE LET ends == {k \in (start + 1)..Len(buf) : buf[k] = NL}
         IN  IF ends = {} THEN Len(buf) - start ELSE SetMin(ends) - 1 - start

\* Rope::at_or_prev_codepoint_boundary
at_or_prev_codepoint_boundary(buf, o) ==
    SetMax({k \in 0..o : is_codepoint_boundary(buf, k)})

\* Rope::at_or_next_codepoint_boundary
at_or_next_codepoint_boundary(buf, o) ==
    LET S == {k \in o..Len(buf) : is_codepoint_boundary(buf, k)}
    IN  IF S = {} THEN None ELSE SetMin(S)

\* Rope::prev_grapheme_offset
prev_grapheme_offset(buf, o) ==
    IF o = 0 THEN None
    ELSE SetMax({k \in 0..(o - 1) : is_grapheme_boundary(buf, k)})

\* Rope::next_grapheme_offset
next_grapheme_offset(buf, o) ==
    IF o >= Len(buf) THEN None
    ELSE SetMin({k \in (o + 1)..Len(buf) : is_grapheme_boundary(buf, k)})

\* Rope::edit(start..end, text)
edit(buf, start, end, text) ==
    SubSeq(buf, 1, start) \o text \o SubSeq(buf, end + 1, Len(buf))

----------------------------------------------------------------------------
(* BufferState *)

get_offset(buf, cur) == offset_of_line(buf, cur[2]) + cur[1]

offset_to_cursor(buf, offset) ==
    LET y == line_of_offset(buf, offset)
        line_start == offset_of_line(buf, y)
    IN  <<offset - line_start, y>>

\* A rope call of get_offset / offset_to_cursor panics.
get_offset_panics(buf, cur) ==
    offset_of_line_panics(buf, cur[2]) \/ get_offset(buf, cur) > Len(buf)

St(buf, cur) == [buffer |-> buf, cursor |-> cur]

\* MoveLeft that stays on its line: at column 0 it does not cross to the end
\* of the previous line.
MoveLeft_SameLine(buf, cur) ==
    LET offset == get_offset(buf, cur)
        new_offset == prev_grapheme_offset(buf, offset)
    IN  IF new_offset # None /\ cur[1] > 0
        THEN St(buf, offset_to_cursor(buf, new_offset))
        ELSE St(buf, <<0, cur[2]>>)

MoveLeft(buf, cur) ==
    LET offset == get_offset(buf, cur)
        new_offset == prev_grapheme_offset(buf, offset)
    IN  IF new_offset # None
        THEN St(buf, offset_to_cursor(buf, new_offset))
        ELSE St(buf, <<0, cur[2]>>)

\* MoveRight that steps by code point instead of by grapheme cluster.
MoveRight_ByCodepoint(buf, cur) ==
    LET offset == get_offset(buf, cur)
    IN  IF offset >= Len(buf) THEN St(buf, cur)
        ELSE St(buf, offset_to_cursor(buf,
                 SetMin({k \in (offset + 1)..Len(buf) : is_codepoint_boundary(buf, k)})))

MoveRight(buf, cur) ==
    LET offset == get_offset(buf, cur)
        new_offset == next_grapheme_offset(buf, offset)
    IN  IF new_offset # None
        THEN St(buf, offset_to_cursor(buf, new_offset))
        ELSE St(buf, cur)

\* MoveUp that does not realign the clamped offset to a code point boundary.
MoveUp_NoRealign(buf, cur) ==
    IF cur[2] = 0 THEN St(buf, <<0, 0>>)
    ELSE LET start_of_line == offset_of_line(buf, cur[2] - 1)
             line_length == first_line_len(buf, start_of_line)
             new_offset == start_of_line + MinOf(cur[1], line_length)
         IN  St(buf, <<new_offset - start_of_line, cur[2] - 1>>)

\* MoveUp that drops the column and lands at the start of the target line.
MoveUp_LineStart(buf, cur) ==
    IF cur[2] = 0 THEN St(buf, <<0, 0>>)
    ELSE St(buf, <<0, cur[2] - 1>>)

MoveUp(buf, cur) ==
    IF cur[2] = 0 THEN St(buf, <<0, 0>>)
    ELSE LET start_of_line == offset_of_line(buf, cur[2] - 1)
             line_length == first_line_len(buf, start_of_line)
             new_offset == start_of_line + MinOf(cur[1], line_length)
             new_offset_aligned == at_or_prev_codepoint_boundary(buf, new_offset)
         IN  St(buf, offset_to_cursor(buf, new_offset_aligned))

\* MoveDown whose end-of-document branch looks the boundary up from offset 0.
MoveDown_FromStart(buf, cur) ==
    LET lines == measure_lines(buf)
    IN  IF lines = 0 \/ cur[2] = lines - 1
        THEN LET offset == at_or_next_codepoint_boundary(buf, 0)
             IN  St(buf, offset_to_cursor(buf, offset))
        ELSE LET start_of_line == offset_of_line(buf, cur[2] + 1)
                 line_length == first_line_len(buf, start_of_line)
                 new_offset == start_of_line + MinOf(cur[1], line_length)
                 new_offset_aligned == at_or_prev_codepoint_boundary(buf, new_offset)
             IN  St(buf, offset_to_cursor(buf, new_offset_aligned))

\* MoveDown that steps to the next line index without consulting the rope.
MoveDown_NoClamp(buf, cur) == St(buf, <<cur[1], cur[2] + 1>>)

MoveDown(buf, cur) ==
    LET lines == measure_lines(buf)
    IN  IF lines = 0 \/ cur[2] = lines - 1
        THEN LET offset == at_or_next_codepoint_boundary(buf, Len(buf))
             IN  St(buf, offset_to_cursor(buf, offset))
        ELSE LET start_of_line == offset_of_line(buf, cur[2] + 1)
                 line_length == first_line_len(buf, start_of_line)
                 new_offset == start_of_line + MinOf(cur[1], line_length)
                 new_offset_aligned == at_or_prev_codepoint_boundary(buf, new_offset)
             IN  St(buf, offset_to_cursor(buf, new_offset_aligned))

\* Insert that advances the column by one instead of by the encoded length.
Insert_ColumnPlusOne(buf, cur, ch) ==
    LET offset == get_offset(buf, cur)
    IN  St(edit(buf, offset, offset, Utf8(ch)), <<cur[1] + 1, cur[2]>>)

Insert(buf, cur, ch) ==
    LET offset == get_offset(buf, cur)
    IN  St(edit(buf, offset, offset, Utf8(ch)), <<cur[1] + len_utf8(ch), cur[2]>>)

\* InsertNewline that resets the column but does not advance the line.
InsertNewline_KeepLine(buf, cur) ==
    LET offset == get_offset(buf, cur)
    IN  St(edit(buf, offset, offset, <<NL>>), <<0, cur[2]>>)

\* InsertNewline that treats the line break like a character: the column
\* advances by one and the line stays.
InsertNewline_AsChar(buf, cur) ==
    LET offset == get_offset(buf, cur)
    IN  St(edit(buf, offset, offset, <<NL>>), <<cur[1] + 1, cur[2]>>)

InsertNewline(buf, cur) ==
    LET offset == get_offset(buf, cur)
    IN  St(edit(buf, offset, offset, <<NL>>), <<0, cur[2] + 1>>)

\* Remove that deletes the grapheme cluster after the cursor (forward delete).
Remove_Forward(buf, cur) ==
    LET offset == get_offset(buf, cur)
        next == next_grapheme_offset(buf, offset)
        end == IF next = None THEN offset ELSE next
    IN  IF offset = 0 THEN St(buf, cur)
        ELSE St(edit(buf, offset, end, <<>>), cur)

Remove(buf, cur) ==
    LET offset == get_offset(buf, cur)
        prev == prev_grapheme_offset(buf, offset)
        start == IF prev = None THEN 0 ELSE prev
        edited == edit(buf, start, offset, <<>>)
    IN  IF offset = 0 THEN St(buf, cur)
        ELSE St(edited, offset_to_cursor(edited, start))

\* The command set of EditorCommand.
Commands ==
    {[op |-> o, ch |-> 0] : o \in {"MoveLeft", "MoveRight", "MoveUp", "MoveDown",
                                  "InsertNewline", "Remove"}}
    \cup {[op |-> "Insert", ch |-> c] : c \in Chars}

process(buf, cur, command) ==
    CASE command.op = "MoveLeft" -> MoveLeft(buf, cur)
      [] command.op = "MoveRight" -> MoveRight(buf, cur)
      [] command.op = "MoveUp" -> MoveUp(buf, cur)
      [] command.op = "MoveDown" -> MoveDown(buf, cur)
      [] command.op = "Insert" -> Insert(buf, cur, command.ch)
      [] command.op = "InsertNewline" -> InsertNewline(buf, cur)
      [] command.op = "Remove" -> Remove(buf, cur)

\* A rope call made by process(command) panics (a precondition of the rope
\* is violated): the line handed to offset_of_line is beyond max_line, or an
\* offset handed to a query or an edit is beyond len().
process_panics(buf, cur, command) ==
    CASE command.op = "MoveUp" ->
            cur[2] > 0 /\ offset_of_line_panics(buf, cur[2] - 1)
      [] command.op = "MoveDown" ->
            LET lines == measure_lines(buf)
            IN  /\ ~(lines = 0 \/ cur[2] = lines - 1)
                /\ offset_of_line_panics(buf, cur[2] + 1)
      [] OTHER -> get_offset_panics(buf, cur)

\* get_cursor: start_offset is line_of_offset(cursor.1), the scan runs over
\* slice_to_cow(start_offset..).char_indices().
get_cursor_panics(buf, cur) ==
    \/ line_of_offset_panics(buf, cur[2])
    \/ ~is_codepoint_boundary(buf, line_of_offset(buf, cur[2]))

get_cursor(buf, cur) ==
    LET start_offset == line_of_offset(buf, cur[2])
        x_bytes == cur[1]
        n == Len(buf) - start_offset
        \* byte offsets, relative to the slice, at which a char starts
        starts == {k \in 0..(n - 1) : ~IsCont(buf[start_offset + k + 1])}
    IN  IF x_bytes \in starts
        THEN <<Cardinality({k \in starts : k < x_bytes}), cur[2]>>
        ELSE <<Cardinality(starts), cur[2]>>

----------------------------------------------------------------------------
(* render_buffer: the text area of the terminal *)

\* (screen_width - 2) as usize, (screen_height - 2) as usize; u16 arithmetic.
terminal_columns == (ScreenWidth - 2) % 65536

terminal_rows == (ScreenHeight - 2) % 65536

\* " ".repeat(n)
Spaces(n) == [k \in 1..n |-> Blank]

\* filler_line
filler_line == Spaces(terminal_columns)

\* The text area after Clear(ClearType::All) and draw_frame: all blank.
BlankScreen == [y \in 1..terminal_rows |-> filler_line]

RECURSIVE raw_lines(_)
\* The pieces of a text between its line breaks.
raw_lines(s) ==
    LET brk == {k \in 1..Len(s) : s[k] = NL}
    IN  IF brk = {} THEN <<s>>
        ELSE LET k == SetMin(brk)
             IN  <<SubSeq(s, 1, k - 1)>> \o raw_lines(SubSeq(s, k + 1, Len(s)))

\* buffer.lines(..): the lines without their line breaks; as with
\* str::lines, nothing follows a final line break and the empty rope has
\* no line.
rope_lines(buf) ==
    LET pieces == raw_lines(buf)
    IN  IF pieces[Len(pieces)] = <<>> THEN SubSeq(pieces, 1, Len(pieces) - 1)
        ELSE pieces

RECURSIVE line_chars(_)
\* line.chars(): the code points of a line.
line_chars(t) ==
    IF t = <<>> THEN <<>>
    ELSE LET n == IF t[1] < 128 THEN 1 ELSE 2
         IN  <<DecodeAt(t, 0)>> \o line_chars(SubSeq(t, n + 1, Len(t)))

\* `terminal_columns - line.chars().count()` of some line underflows: a
\* panic where overflow is checked, and otherwise a wrapped count that
\* " ".repeat cannot allocate.
render_buffer_panics(buf) ==
    \E y \in 1..Len(rope_lines(buf)) :
        terminal_columns - Len(line_chars(rope_lines(buf)[y])) < 0

\* render_buffer: blank the first cell, print every line of the rope padded
\* to terminal_columns at row y, print filler_line on the rows from
\* lines + 1 on.  Rows at or below terminal_rows are outside the text area.
render_buffer(buf, scr) ==
    LET lines == measure_lines(buf)
        rl == rope_lines(buf)
    IN  [y \in 1..terminal_rows |->
            IF y <= Len(rl)
            THEN line_chars(rl[y]) \o Spaces(terminal_columns - Len(line_chars(rl[y])))
            ELSE IF y - 1 >= lines + 1 THEN filler_line
            ELSE IF y = 1 THEN [scr[1] EXCEPT ![1] = Blank]
            ELSE scr[y]]

----------------------------------------------------------------------------
(* The event loop of main: one key event is one step *)

Init ==
    /\ screen = BlankScreen
    /\ buffer = <<>>
    /\ cursor = <<0, 0>>
    /\ display = <<0, 0>>
    /\ panicked = FALSE
    /\ cmd = [op |-> "None", ch |-> 0]
    /\ prevBuffer = <<>>
    /\ prevCursor = <<0, 0>>

\* state.process(command); synchronize_cursor(state.get_cursor()).  A panic
\* unwinds out of main: no further key is handled.  Here the terminal is
\* large enough for the bounded buffer and what it shows is not followed;
\* SpecScreen below follows it.
Dispatch(command) ==
    /\ UNCHANGED screen
    /\ cmd' = command
    /\ prevBuffer' = buffer
    /\ prevCursor' = cursor
    /\ IF process_panics(buffer, cursor, command)
       THEN /\ panicked' = TRUE
            /\ UNCHANGED <<buffer, cursor, display>>
       ELSE LET s == process(buffer, cursor, command)
            IN  /\ buffer' = s.buffer
                /\ cursor' = s.cursor
                /\ IF get_cursor_panics(s.buffer, s.cursor)
                   THEN panicked' = TRUE /\ display' = display
                   ELSE panicked' = FALSE /\ display' = get_cursor(s.buffer, s.cursor)

KeyLeft ==
    /\ ~panicked
    /\ Dispatch([op |-> "MoveLeft", ch |-> 0])

KeyRight ==
    /\ ~panicked
    /\ Dispatch([op |-> "MoveRight", ch |-> 0])

KeyUp ==
    /\ ~panicked
    /\ Dispatch([op |-> "MoveUp", ch |-> 0])

KeyDown ==
    /\ ~panicked
    /\ Dispatch([op |-> "MoveDown", ch |-> 0])

KeyEnter ==
    /\ ~panicked
    /\ Len(buffer) < MaxLen
    /\ Dispatch([op |-> "InsertNewline", ch |-> 0])

KeyChar ==
    \E ch \in Chars :
        /\ ~panicked
        /\ Len(buffer) + len_utf8(ch) <= MaxLen
        /\ Dispatch([op |-> "Insert", ch |-> ch])

KeyBackspace ==
    /\ ~panicked
    /\ Dispatch([op |-> "Remove", ch |-> 0])

Next ==
    \/ KeyLeft
    \/ KeyRight
    \/ KeyUp
    \/ KeyDown
    \/ KeyEnter
    \/ KeyChar
    \/ KeyBackspace

Spec == Init /\ [][Next]_vars

----------------------------------------------------------------------------
(* The event loop on a small terminal, with the text area followed *)

\* Bound on the bytes of the buffer on the small terminal: room for a line
\* longer than the text area is wide.
ScreenMaxLen == terminal_columns + 1

\* state.process(command); render_buffer(&state.buffer) for the keys that
\* change the buffer; synchronize_cursor(state.get_cursor()).
ScreenDispatch(command, renders) ==
    /\ cmd' = command
    /\ prevBuffer' = buffer
    /\ prevCursor' = cursor
    /\ IF process_panics(buffer, cursor, command)
       THEN /\ panicked' = TRUE
            /\ UNCHANGED <<buffer, cursor, display, screen>>
       ELSE LET s == process(buffer, cursor, command)
            IN  /\ buffer' = s.buffer
                /\ cursor' = s.cursor
                /\ IF renders /\ render_buffer_panics(s.buffer)
                   THEN panicked' = TRUE /\ UNCHANGED <<display, screen>>
                   ELSE /\ screen' = IF renders THEN render_buffer(s.buffer, screen)
                                     ELSE screen
                        /\ IF get_cursor_panics(s.buffer, s.cursor)
                           THEN panicked' = TRUE /\ display' = display
                           ELSE /\ panicked' = FALSE
                                /\ display' = get_cursor(s.buffer, s.cursor)

ScreenKeyLeft ==
    /\ ~panicked
    /\ ScreenDispatch([op |-> "MoveLeft", ch |-> 0], FALSE)

ScreenKeyRight ==
    /\ ~panicked
    /\ ScreenDispatch([op |-> "MoveRight", ch |-> 0], FALSE)

ScreenKeyUp ==
    /\ ~panicked
    /\ ScreenDispatch([op |-> "MoveUp", ch |-> 0], FALSE)

ScreenKeyDown ==
    /\ ~panicked
    /\ ScreenDispatch([op |-> "MoveDown", ch |-> 0], FALSE)

ScreenKeyEnter ==
    /\ ~panicked
    /\ Len(buffer) < ScreenMaxLen
    /\ measure_lines(buffer) < ScreenMaxBreaks
    /\ ScreenDispatch([op |-> "InsertNewline", ch |-> 0], TRUE)

ScreenKeyChar ==
    \E ch \in ScreenChars :
        /\ ~panicked
        /\ Len(buffer) + len_utf8(ch) <= ScreenMaxLen
        /\ ScreenDispatch([op |-> "Insert", ch |-> ch], TRUE)

ScreenKeyBackspace ==
    /\ ~panicked
    /\ ScreenDispatch([op |-> "Remove", ch |-> 0], TRUE)

NextScreen ==
    \/ ScreenKeyLeft
    \/ ScreenKeyRight
    \/ ScreenKeyUp
    \/ ScreenKeyDown
    \/ ScreenKeyEnter
    \/ ScreenKeyChar
    \/ ScreenKeyBackspace

SpecScreen == Init /\ [][NextScreen]_vars

----------------------------------------------------------------------------
(* Vocabulary of the properties: the buffer as a sequence of lines *)

RECURSIVE SplitLines(_)
\* The lines of a text, without their line breaks (line breaks + 1 lines).
SplitLines(s) ==
    LET brk == {k \in 1..Len(s) : s[k] = NL}
    IN  IF brk = {} THEN <<s>>
        ELSE LET k == SetMin(brk)
             IN  <<SubSeq(s, 1, k - 1)>> \o SplitLines(SubSeq(s, k + 1, Len(s)))

LineCount(buf) == Len(SplitLines(buf))

LineText(buf, L) == SplitLines(buf)[L + 1]

LineLen(buf, L) == Len(LineText(buf, L))

RECURSIVE LineStart(_, _)
\* Byte offset at which line L begins.
LineStart(buf, L) ==
    IF L = 0 THEN 0 ELSE LineStart(buf, L - 1) + LineLen(buf, L - 1) + 1

\* Absolute byte offset of a cursor.
AbsOffset(buf, cur) == LineStart(buf, cur[2]) + cur[1]

\* k is a code point boundary of the text t.
CharBoundary(t, k) == k = 0 \/ k = Len(t) \/ (k > 0 /\ k < Len(t) /\ ~IsCont(t[k + 1]))

\* min(c, length of line L) realigned to the code point boundary at or before it.
ClampAlign(buf, c, L) ==
    LET t == LineText(buf, L)
    IN  SetMax({k \in 0..MinOf(c, Len(t)) : CharBoundary(t, k)})

\* The cursor is a position of the buffer.
CursorValid(buf, cur) ==
    /\ cur[2] >= 0 /\ cur[2] < LineCount(buf)
    /\ cur[1] >= 0 /\ cur[1] <= LineLen(buf, cur[2])
    /\ CharBoundary(LineText(buf, cur[2]), cur[1])

\* The command just processed ran to completion (no rope call panicked).
Processed(op) == cmd.op = op /\ ~process_panics(prevBuffer, prevCursor, cmd)

----------------------------------------------------------------------------
(* C1 -- cursor invariant *)

\* C1: after any sequence of commands the cursor's line is below the line
\* count (line breaks + 1) and its column is a code point boundary within
\* the byte length of that line.
C1_CursorInvariant == CursorValid(buffer, cursor)

\* A MoveDown whose clamped column fell inside a code point and was realigned.
C1_Witness ==
    /\ Processed("MoveDown")
    /\ cursor[2] = prevCursor[2] + 1
    /\ cursor[1] < MinOf(prevCursor[1], LineLen(buffer, cursor[2]))

----------------------------------------------------------------------------
(* C2 -- MoveDown from a line that is not the last *)

\* C2: MoveDown at (c, L), L not the last line, yields (c', L+1) with c' the
\* column min(c, length of line L+1) realigned to a code point boundary,
\* also when L+1 is the last line.
C2_MoveDownClamps ==
    (Processed("MoveDown") /\ prevCursor[2] < LineCount(prevBuffer) - 1)
        => /\ buffer = prevBuffer
           /\ cursor = <<ClampAlign(prevBuffer, prevCursor[1], prevCursor[2] + 1),
                         prevCursor[2] + 1>>

----------------------------------------------------------------------------
(* C3 -- Insert then Remove *)

\* The inserted character joins the grapheme cluster of the character before
\* the cursor: it is a combining mark and the cursor is neither at the start
\* of the document nor directly after a line break.
InsertJoins ==
    LET o == AbsOffset(prevBuffer, prevCursor)
    IN  IsExtend(cmd.ch) /\ o > 0 /\ ~IsControl(prevBuffer[o])

\* Remove, processed after the Insert that led to this state, gives back the
\* buffer and the cursor from before the Insert.
RemoveRestores ==
    /\ ~process_panics(buffer, cursor, [op |-> "Remove", ch |-> 0])
    /\ Remove(buffer, cursor) = St(prevBuffer, prevCursor)

\* C3 as stated: Insert(c) then Remove restores buffer and cursor for every
\* character c and every cursor position.
C3_RoundTripAnyChar == (Processed("Insert") /\ ~panicked) => RemoveRestores

\* C3 amended: Insert(c) then Remove restores buffer and cursor whenever c
\* does not join the grapheme cluster of the character before the cursor.
C3_RoundTrip == (Processed("Insert") /\ ~panicked /\ ~InsertJoins) => RemoveRestores

\* A combining mark inserted directly after a line break, then removable alone.
C3_Witness ==
    /\ Processed("Insert") /\ ~panicked /\ ~InsertJoins
    /\ IsExtend(cmd.ch) /\ prevCursor[2] > 0
    /\ RemoveRestores

----------------------------------------------------------------------------
(* C4 -- MoveDown then MoveUp, MoveUp then MoveDown *)

\* The last command was MoveDown from a line that is not the last one.
DownFromNonLast ==
    Processed("MoveDown") /\ ~panicked /\ prevCursor[2] < LineCount(prevBuffer) - 1

\* The last command was MoveUp from a line that is neither the first nor the last.
UpFromMiddle ==
    /\ Processed("MoveUp") /\ ~panicked
    /\ prevCursor[2] > 0 /\ prevCursor[2] < LineCount(prevBuffer) - 1

BackIsClampOfIntermediate(back) ==
    /\ back[2] = prevCursor[2]
    /\ back[1] = ClampAlign(buffer, cursor[1], prevCursor[2])
    /\ (cursor[1] = prevCursor[1] => back = prevCursor)

----------------------------------------------------------------------------
(* C5 -- display cursor *)

\* Number of characters of the cursor's line that lie before the byte column.
CharsBefore(buf, cur) ==
    LET t == LineText(buf, cur[2])
    IN  Cardinality({k \in 0..(cur[1] - 1) : ~IsCont(t[k + 1])})

\* C5: the display cursor is (k, line), k the number of characters of the
\* cursor's own line before the byte column, on every line.
C5_DisplayCursor ==
    (cmd.op # "None" /\ ~panicked) => display = <<CharsBefore(buffer, cursor), cursor[2]>>

----------------------------------------------------------------------------
(* C6 -- MoveDown on the last line *)

\* C6: MoveDown on the last line yields the end-of-document position
\* (length of the last line, last line) and leaves the buffer unchanged.
C6_MoveDownOnLastLine ==
    (Processed("MoveDown") /\ prevCursor[2] = LineCount(prevBuffer) - 1)
        => /\ buffer = prevBuffer
           /\ cursor = <<LineLen(prevBuffer, prevCursor[2]), prevCursor[2]>>
           /\ AbsOffset(buffer, cursor) = Len(buffer)

\* MoveDown on the last line of a multi-line buffer, from before its end.
C6_Witness ==
    /\ Processed("MoveDown")
    /\ prevCursor[2] = LineCount(prevBuffer) - 1
    /\ prevCursor[2] > 0
    /\ prevCursor[1] < LineLen(prevBuffer, prevCursor[2])
    /\ cursor[1] = LineLen(buffer, cursor[2])

----------------------------------------------------------------------------
(* C7 -- MoveUp *)

\* C7: MoveUp on line 0 yields (0,0); on line L > 0 it yields (c', L-1), c'
\* the column min(c, length of line L-1) realigned to a code point boundary;
\* the buffer is unchanged.
C7_MoveUp ==
    Processed("MoveUp")
        => /\ buffer = prevBuffer
           /\ cursor[2] >= 0
           /\ IF prevCursor[2] = 0 THEN cursor = <<0, 0>>
              ELSE cursor = <<ClampAlign(prevBuffer, prevCursor[1], prevCursor[2] - 1),
                              prevCursor[2] - 1>>

\* A MoveUp whose clamped column fell inside a code point and was realigned.
C7_Witness ==
    /\ Processed("MoveUp")
    /\ prevCursor[2] > 0
    /\ cursor[1] < MinOf(prevCursor[1], LineLen(buffer, cursor[2]))

----------------------------------------------------------------------------
(* C8 -- Remove *)

\* C8: Remove at offset 0 changes nothing; otherwise it deletes the bytes
\* [prev_boundary(offset), offset) and nothing else, and the cursor becomes
\* the position of the deletion start; at column 0 of a line L > 0 the line
\* break goes, lines L-1 and L are joined and the cursor is at
\* (old length of line L-1, L-1).
C8_Remove ==
    Processed("Remove")
        => LET o == AbsOffset(prevBuffer, prevCursor)
               p == prev_grapheme_offset(prevBuffer, o)
               L == prevCursor[2]
           IN  IF o = 0 THEN buffer = prevBuffer /\ cursor = prevCursor
               ELSE /\ p >= 0 /\ p < o
                    /\ buffer = SubSeq(prevBuffer, 1, p)
                                  \o SubSeq(prevBuffer, o + 1, Len(prevBuffer))
                    /\ CursorValid(buffer, cursor)
                    /\ AbsOffset(buffer, cursor) = p
                    /\ prevCursor[1] = 0
                         => /\ p = o - 1
                            /\ LineCount(buffer) = LineCount(prevBuffer) - 1
                            /\ LineText(buffer, L - 1)
                                 = LineText(prevBuffer, L - 1) \o LineText(prevBuffer, L)
                            /\ cursor = <<LineLen(prevBuffer, L - 1), L - 1>>

\* Remove at column 0 of a line L > 0 that joins two non-empty lines.
C8_Witness ==
    /\ Processed("Remove")
    /\ prevCursor[1] = 0 /\ prevCursor[2] > 0
    /\ LineLen(prevBuffer, prevCursor[2] - 1) > 0
    /\ LineLen(prevBuffer, prevCursor[2]) > 0
    /\ cursor = <<LineLen(prevBuffer, prevCursor[2] - 1), prevCursor[2] - 1>>

----------------------------------------------------------------------------
(* C9 -- InsertNewline *)

\* C9: InsertNewline at (c, L) inserts one line break at the cursor's offset:
\* line L becomes the first c bytes of the old line L, line L+1 the rest of
\* it, the other lines keep content and order, and the cursor is (0, L+1).
C9_InsertNewline ==
    Processed("InsertNewline")
        => LET c == prevCursor[1]
               L == prevCursor[2]
               o == AbsOffset(prevBuffer, prevCursor)
               old == SplitLines(prevBuffer)
               t == old[L + 1]
           IN  /\ buffer = SubSeq(prevBuffer, 1, o) \o <<NL>>
                             \o SubSeq(prevBuffer, o + 1, Len(prevBuffer))
               /\ SplitLines(buffer)
                    = SubSeq(old, 1, L)
                        \o <<SubSeq(t, 1, c), SubSeq(t, c + 1, Len(t))>>
                        \o SubSeq(old, L + 2, Len(old))
               /\ LineCount(buffer) = LineCount(prevBuffer) + 1
               /\ cursor = <<0, L + 1>>

\* A line break inserted in the middle of a line that is not the first.
C9_Witness ==
    /\ Processed("InsertNewline")
    /\ prevCursor[2] > 0
    /\ prevCursor[1] > 0 /\ prevCursor[1] < LineLen(prevBuffer, prevCursor[2])
    /\ cursor = <<0, prevCursor[2] + 1>>

----------------------------------------------------------------------------
(* C10 -- MoveRight then MoveLeft *)

\* The last command was MoveRight from the start of a grapheme cluster that
\* is not the end of the document.
RightFromClusterStart ==
    /\ Processed("MoveRight") /\ ~panicked
    /\ is_grapheme_boundary(prevBuffer, AbsOffset(prevBuffer, prevCursor))
    /\ AbsOffset(prevBuffer, prevCursor) < Len(prevBuffer)

\* C10: from the start of a grapheme cluster, MoveRight then MoveLeft returns
\* to the starting offset and (column, line); the intermediate and the final
\* position are grapheme boundaries; also across a line break.
C10_RightThenLeft ==
    RightFromClusterStart
        => LET o == AbsOffset(prevBuffer, prevCursor)
               mid == AbsOffset(buffer, cursor)
               back == MoveLeft(buffer, cursor).cursor
           IN  /\ mid > o
               /\ is_grapheme_boundary(buffer, mid)
               /\ \A k \in (o + 1)..(mid - 1) : ~is_grapheme_boundary(buffer, k)
               /\ back = prevCursor
               /\ AbsOffset(buffer, back) = o

\* MoveRight over a base letter with a combining accent (three bytes).
C10_Witness ==
    /\ RightFromClusterStart
    /\ AbsOffset(buffer, cursor) = AbsOffset(prevBuffer, prevCursor) + 3
    /\ MoveLeft(buffer, cursor).cursor = prevCursor

----------------------------------------------------------------------------
(* C11 -- MoveLeft *)

\* C11: MoveLeft at offset 0 leaves the cursor at (0,0); at an offset > 0 the
\* cursor becomes the position of the previous grapheme boundary, so that at
\* column 0 of a line L > 0 it becomes (length of line L-1, L-1); the buffer
\* is unchanged.
C11_MoveLeft ==
    Processed("MoveLeft")
        => LET o == AbsOffset(prevBuffer, prevCursor)
               L == prevCursor[2]
           IN  /\ buffer = prevBuffer
               /\ IF o = 0 THEN cursor = <<0, 0>>
                  ELSE /\ CursorValid(buffer, cursor)
                       /\ AbsOffset(buffer, cursor) = prev_grapheme_offset(prevBuffer, o)
                       /\ is_grapheme_boundary(buffer, AbsOffset(buffer, cursor))
                       /\ prevCursor[1] = 0 => cursor = <<LineLen(prevBuffer, L - 1), L - 1>>

\* MoveLeft from column 0 of a line L > 0 onto the end of a non-empty line.
C11_Witness ==
    /\ Processed("MoveLeft")
    /\ prevCursor[1] = 0 /\ prevCursor[2] > 0
    /\ cursor[2] = prevCursor[2] - 1
    /\ cursor[1] > 0

----------------------------------------------------------------------------
(* C12 -- MoveRight *)

\* C12: MoveRight at the end of the document changes nothing; otherwise the
\* cursor becomes the position of the next grapheme boundary, so that at the
\* end of a line L that is not the last it becomes (0, L+1).
C12_MoveRight ==
    Processed("MoveRight")
        => LET o == AbsOffset(prevBuffer, prevCursor)
               L == prevCursor[2]
           IN  /\ buffer = prevBuffer
               /\ IF o = Len(prevBuffer) THEN cursor = prevCursor
                  ELSE /\ CursorValid(buffer, cursor)
                       /\ AbsOffset(buffer, cursor) = next_grapheme_offset(prevBuffer, o)
                       /\ is_grapheme_boundary(buffer, AbsOffset(buffer, cursor))
                       /\ (prevCursor[1] = LineLen(prevBuffer, L) /\ L < LineCount(prevBuffer) - 1)
                            => cursor = <<0, L + 1>>

\* MoveRight from the end of a non-empty line that is not the last.
C12_Witness ==
    /\ Processed("MoveRight")
    /\ prevCursor[1] > 0
    /\ prevCursor[1] = LineLen(prevBuffer, prevCursor[2])
    /\ prevCursor[2] < LineCount(prevBuffer) - 1
    /\ cursor = <<0, prevCursor[2] + 1>>

----------------------------------------------------------------------------
(* C13 -- Insert *)

\* C13: Insert(c) at (col, L), offset o, inserts exactly the UTF-8 encoding
\* of c at o, keeps the line and sets the column to col + len_utf8(c), so
\* that the cursor's offset is o + len_utf8(c), right after the character.
C13_Insert ==
    Processed("Insert")
        => LET o == AbsOffset(prevBuffer, prevCursor)
               n == Len(buffer) - Len(prevBuffer)
           IN  /\ n = len_utf8(cmd.ch)
               /\ n >= 1
               /\ SubSeq(buffer, 1, o) = SubSeq(prevBuffer, 1, o)
               /\ SubSeq(buffer, o + n + 1, Len(buffer))
                    = SubSeq(prevBuffer, o + 1, Len(prevBuffer))
               /\ DecodeAt(buffer, o) = cmd.ch
               /\ \A k \in (o + 1)..(o + n - 1) : IsCont(buffer[k + 1])
               /\ cursor = <<prevCursor[1] + n, prevCursor[2]>>
               /\ CursorValid(buffer, cursor)
               /\ AbsOffset(buffer, cursor) = o + n

\* A two-byte character inserted in the middle of a line that is not the first.
C13_Witness ==
    /\ Processed("Insert")
    /\ len_utf8(cmd.ch) = 2
    /\ prevCursor[2] > 0
    /\ prevCursor[1] > 0 /\ prevCursor[1] < LineLen(prevBuffer, prevCursor[2])
    /\ cursor = <<prevCursor[1] + 2, prevCursor[2]>>

----------------------------------------------------------------------------
(* C14 -- every command is defined in every reachable state *)

\* offset_to_cursor(offset) on buf: the offset is within len() and on a code
\* point boundary, the line handed to offset_of_line is not beyond the line
\* count, and `offset - line_start` does not underflow.
ToCursorDefined(buf, offset) ==
    /\ offset >= 0 /\ offset <= Len(buf)
    /\ ~line_of_offset_panics(buf, offset)
    /\ ~offset_of_line_panics(buf, line_of_offset(buf, offset))
    /\ offset - offset_of_line(buf, line_of_offset(buf, offset)) >= 0

\* get_offset() in the current state.
GetOffsetDefined ==
    /\ cursor[2] <= measure_lines(buffer) + 1
    /\ get_offset(buffer, cursor) <= Len(buffer)
    /\ is_codepoint_boundary(buffer, get_offset(buffer, cursor))

\* The clamp-and-realign of MoveUp / MoveDown towards the line `target`.
VerticalDefined(target) ==
    /\ target >= 0
    /\ target <= measure_lines(buffer) + 1
    /\ LET start_of_line == offset_of_line(buffer, target)
           new_offset == start_of_line
                           + MinOf(cursor[1], first_line_len(buffer, start_of_line))
       IN  /\ new_offset <= Len(buffer)
           /\ ToCursorDefined(buffer, at_or_prev_codepoint_boundary(buffer, new_offset))

\* process(c) runs to completion in the current state.
CommandDefined(c) ==
    /\ ~process_panics(buffer, cursor, c)
    /\ CASE c.op = "MoveLeft" ->
              /\ GetOffsetDefined
              /\ LET p == prev_grapheme_offset(buffer, get_offset(buffer, cursor))
                 IN  p # None => ToCursorDefined(buffer, p)
         [] c.op = "MoveRight" ->
              /\ GetOffsetDefined
              /\ LET n == next_grapheme_offset(buffer, get_offset(buffer, cursor))
                 IN  n # None => ToCursorDefined(buffer, n)
         [] c.op = "MoveUp" ->
              cursor[2] # 0 => VerticalDefined(cursor[2] - 1)
         [] c.op = "MoveDown" ->
              LET lines == measure_lines(buffer)
              IN  IF lines = 0 \/ cursor[2] = lines - 1
                  THEN /\ at_or_next_codepoint_boundary(buffer, Len(buffer)) # None
                       /\ ToCursorDefined(buffer,
                              at_or_next_codepoint_boundary(buffer, Len(buffer)))
                  ELSE /\ lines - 1 >= 0
                       /\ VerticalDefined(cursor[2] + 1)
         [] c.op = "Remove" ->
              /\ GetOffsetDefined
              /\ LET s == Remove(buffer, cursor)
                 IN  /\ Len(s.buffer) <= Len(buffer)
                     /\ CursorValid(s.buffer, s.cursor)
         [] OTHER -> GetOffsetDefined

\* C14: in every reachable state every command runs to completion: no line
\* beyond the line count reaches offset_of_line, no offset beyond len()
\* reaches the rope, no subtraction underflows and the end-of-document
\* lookup of MoveDown has a value.
C14_CommandsDefined ==
    /\ cmd.op # "None" => ~process_panics(prevBuffer, prevCursor, cmd)
    /\ \A c \in Commands : CommandDefined(c)

\* MoveDown processed on the last line of a multi-line buffer: offset_of_line
\* was called with the line count itself.
C14_Witness ==
    /\ Processed("MoveDown")
    /\ measure_lines(prevBuffer) > 0
    /\ prevCursor[2] = measure_lines(prevBuffer)
    /\ cursor[2] = prevCursor[2]

----------------------------------------------------------------------------
(* C15 -- what each command changes *)

\* C15: the four movement commands leave the buffer unchanged; Insert,
\* InsertNewline and Remove (at offset > 0) change its byte length by
\* +len_utf8(c), +1 and -(length of the deleted cluster); the display-cursor
\* query changes neither buffer nor cursor.
C15_Frame ==
    /\ (Processed("MoveLeft") \/ Processed("MoveRight")
          \/ Processed("MoveUp") \/ Processed("MoveDown")) => buffer = prevBuffer
    /\ Processed("Insert")
         => buffer # prevBuffer /\ Len(buffer) = Len(prevBuffer) + len_utf8(cmd.ch)
    /\ Processed("InsertNewline")
         => buffer # prevBuffer /\ Len(buffer) = Len(prevBuffer) + 1
    /\ Processed("Remove")
         => LET o == AbsOffset(prevBuffer, prevCursor)
            IN  IF o = 0 THEN buffer = prevBuffer
                ELSE /\ buffer # prevBuffer
                     /\ Len(buffer) = Len(prevBuffer)
                                        - (o - prev_grapheme_offset(prevBuffer, o))
    /\ (cmd.op # "None" /\ ~process_panics(prevBuffer, prevCursor, cmd))
         => St(buffer, cursor) = process(prevBuffer, prevCursor, cmd)

\* Remove of a three-byte cluster (base letter and combining accent).
C15_Witness ==
    /\ Processed("Remove")
    /\ Len(buffer) = Len(prevBuffer) - 3
    /\ ~panicked

----------------------------------------------------------------------------
(* C16 -- the cursor and grapheme clusters *)

\* The cursor's offset is a grapheme-cluster boundary of the buffer.
OnGraphemeBoundary == is_grapheme_boundary(buffer, AbsOffset(buffer, cursor))

\* C16 as stated: after any sequence of commands the cursor's offset is a
\* grapheme-cluster boundary, never strictly inside a cluster.
C16_AlwaysOnGraphemeBoundary == OnGraphemeBoundary

\* C16 amended: the cursor's offset is always a code point boundary; it is a
\* grapheme-cluster boundary after every MoveLeft, MoveRight and
\* InsertNewline.
C16_BoundaryAfterHorizontalMove ==
    /\ is_codepoint_boundary(buffer, AbsOffset(buffer, cursor))
    /\ (Processed("MoveLeft") \/ Processed("MoveRight") \/ Processed("InsertNewline"))
         => OnGraphemeBoundary

\* MoveRight from strictly inside a cluster onto the cluster's end.
C16_Witness ==
    /\ Processed("MoveRight")
    /\ ~is_grapheme_boundary(prevBuffer, AbsOffset(prevBuffer, prevCursor))
    /\ cursor # prevCursor
    /\ OnGraphemeBoundary

----------------------------------------------------------------------------
(* C17 -- the stored cursor is the canonical position of its offset *)

\* C17: offset_to_cursor(get_offset()) is the stored cursor, and for every
\* offset o of the buffer (a code point boundary in [0, len()]) get_offset
\* of offset_to_cursor(o) is o; an offset right after a line break maps to
\* column 0 of the following line.
C17_CursorCanonical ==
    /\ ~get_offset_panics(buffer, cursor)
    /\ offset_to_cursor(buffer, get_offset(buffer, cursor)) = cursor
    /\ \A o \in 0..Len(buffer) :
         is_codepoint_boundary(buffer, o)
           => LET c == offset_to_cursor(buffer, o)
              IN  /\ ~get_offset_panics(buffer, c)
                  /\ get_offset(buffer, c) = o
                  /\ CursorValid(buffer, c)
                  /\ AbsOffset(buffer, c) = o
                  /\ (o > 0 /\ buffer[o] = NL) => c[1] = 0

\* The cursor right after a line break that is not the first one, at
\* column 0 of the following line.
C17_Witness ==
    /\ Processed("InsertNewline")
    /\ cursor[2] > 1 /\ cursor[1] = 0
    /\ LineLen(buffer, cursor[2] - 1) > 0
    /\ offset_to_cursor(buffer, get_offset(buffer, cursor)) = cursor

----------------------------------------------------------------------------
(* C18 -- the text area after a key that changes the buffer *)

\* The last key was one that changes the buffer and render_buffer has run.
Rendered ==
    /\ cmd.op \in {"Insert", "InsertNewline", "Remove"}
    /\ ~process_panics(prevBuffer, prevCursor, cmd)
    /\ ~render_buffer_panics(buffer)

\* Row y of the text area as the buffer wants it: line y padded with blanks,
\* or all blank where the buffer has no line y.
ExpectedRow(y) ==
    IF y < LineCount(buffer)
    THEN LET t == line_chars(LineText(buffer, y))
         IN  t \o [k \in 1..(terminal_columns - Len(t)) |-> Blank]
    ELSE [k \in 1..terminal_columns |-> Blank]

\* C18: after a key that changes the buffer and the render that follows,
\* every row of the text area shows its buffer line padded with blanks, or
\* is blank; no row keeps text of an earlier buffer.
C18_ScreenMatchesBuffer ==
    Rendered => \A y \in 0..(terminal_rows - 1) : screen[y + 1] = ExpectedRow(y)

----------------------------------------------------------------------------
(* C19 -- the padding width of render_buffer *)

\* C19: for every buffer that typing produces, the padding width
\* terminal_columns - line.chars().count() is not negative for any line, and
\* neither are screen_width - 2 and screen_height - 2.
C19_PaddingNotNegative ==
    (cmd.op = "Insert" /\ ~process_panics(prevBuffer, prevCursor, cmd))
        => /\ ScreenWidth - 2 >= 0
           /\ ScreenHeight - 2 >= 0
           /\ \A y \in 1..Len(rope_lines(buffer)) :
                terminal_columns - Len(line_chars(rope_lines(buffer)[y])) >= 0

====
